---------------------------- MODULE Spec2Model ----------------------------
(***************************************************************************)
(* Verification model of the spectral-element remap core of tempestremap:  *)
(*   - ForceConsistencyConservation3 and LinearRemapSE4                    *)
(*     (src/LinearRemapSE0.cpp),                                           *)
(*   - the driver main (src/gecore2.cpp).                                  *)
(* Doubles are modelled by exact rationals <<num, den>> (den > 0, lowest   *)
(* terms), so that the algebraic identities the code relies on can be      *)
(* checked exactly.  Vectors and matrices are functions on 0..n-1, as the  *)
(* C++ arrays are.                                                         *)
(***************************************************************************)
EXTENDS Integers, Sequences, FiniteSets, TLC

VARIABLES
    \* arguments and locals of ForceConsistencyConservation3
    vecSourceArea,   \* source weights, one per column of dCoeff
    vecTargetArea,   \* target weights, one per row of dCoeff
    dCoeff,          \* the coefficient matrix, rewritten in place
    fMonotone,       \* the monotone flag
    dCoeffIn,        \* dCoeff as passed to the call
    nInfo,           \* info of the SPD solve
    fccPc            \* "idle", "call", "returned", "thrown"

VARIABLES
    \* arguments and locals of LinearRemapSE4
    nInputFaces,     \* meshInput.faces.size()
    inEdges,         \* meshInput.faces[e].edges.size()
    nOutputFaces,    \* meshOutput.faces.size()
    outFaceArea,     \* meshOutput.vecFaceArea
    vecFirstFaceIx,  \* meshOverlap.vecFirstFaceIx
    vecSecondFaceIx, \* meshOverlap.vecSecondFaceIx
    ixFirst,         \* the loop variable over the input faces
    ixOverlap,       \* the current overlap face
    smatMap,         \* the sparse matrix of mapRemap, by <<row, col>>
    dRemapCoeff,     \* the coefficients of the current element, [j][p * nP + q]
    se4Pc,           \* "idle", "loop", "quadrature", "quadrature done",
                     \* "done", "error"
    se4Err,          \* the exception raised, "" when none
    elemLog          \* one record per loop iteration that ended, in order

VARIABLES
    \* locals of the quadrature loops of one iteration of LinearRemapSE4
    nOverlapTriangles, \* faceOverlap.edges.size() - 2, per overlap face
    jFace,           \* the loop variable j over the overlap faces
    kTri,            \* the loop variable k over the sub-triangles
    lPoint,          \* the loop variable l over the quadrature points
    dAlpha,          \* what ApplyInverseMap returned last
    dBeta,
    dSampleAt,       \* the coordinates SampleGLLFiniteElement was last given
    dSampleCoeff     \* what SampleGLLFiniteElement returned last

VARIABLES
    \* locals of main and of ParseVariableList
    strInputData,    \* --in_data
    strOutputData,   \* --out_data
    strVariables,    \* --var, a sequence of characters
    strOutputMap,    \* --out_map
    strMetaFile,     \* --in_meta
    fInputSE,        \* --in_se
    fOutputSE,       \* --out_se
    fNoCheck,        \* --nocheck, set by main on an area mismatch
    iVarBegin,       \* ParseVariableList: start of the current name
    iVarCurrent,     \* ParseVariableList: the character looked at
    vecVariableStrings, \* the parsed variable names
    dTotalAreaInput, \* meshInput.CalculateFaceAreas()
    dTotalAreaOverlap, \* meshOverlap.CalculateFaceAreas()
    srcFaceIx,       \* per overlap face, the input face it lies in
    tgtFaceIx,       \* per overlap face, the output face it lies in
    fInverted,       \* the overlap file lists the output face first
    kernelFirst,     \* vecFirstFaceIx as the remap kernel received it
    kernelSecond,    \* vecSecondFaceIx as the remap kernel received it
    drvLog,          \* the kernel, checks, write and apply calls made, in order
    strException,    \* the exception caught by main, "" when none
    exitStatus,      \* the exit status of the process, -1 while it runs
    drvPc            \* the position in main

fccVars ==
    <<vecSourceArea, vecTargetArea, dCoeff, fMonotone, dCoeffIn, nInfo, fccPc>>

se4Vars ==
    <<nInputFaces, inEdges, nOutputFaces, outFaceArea, vecFirstFaceIx,
      vecSecondFaceIx, ixFirst, ixOverlap, smatMap, dRemapCoeff, se4Pc, se4Err,
      elemLog>>

drvVars ==
    <<strInputData, strOutputData, strVariables, strOutputMap, strMetaFile,
      fInputSE, fOutputSE, fNoCheck, iVarBegin, iVarCurrent, vecVariableStrings,
      dTotalAreaInput, dTotalAreaOverlap, srcFaceIx, tgtFaceIx, fInverted,
      kernelFirst, kernelSecond, drvLog, strException, exitStatus, drvPc>>

quadVars ==
    <<nOverlapTriangles, jFace, kTri, lPoint, dAlpha, dBeta, dSampleAt,
      dSampleCoeff>>

vars ==
    <<fccVars, se4Vars, quadVars, drvVars>>

(***************************************************************************)
(* Exact arithmetic standing for the double arithmetic of the source.      *)
(***************************************************************************)
Abs(n) ==
    IF n < 0 THEN -n ELSE n

RECURSIVE GCD(_, _)
GCD(a, b) ==
    IF b = 0 THEN a ELSE GCD(b, a % b)

\* <<n, 0>> stands for the non-finite doubles: <<1, 0>> is +inf, <<-1, 0>> is
\* -inf and <<0, 0>> is NaN; they arise from divisions by zero as in IEEE 754
Sign(n) ==
    IF n < 0 THEN -1 ELSE IF n = 0 THEN 0 ELSE 1

Norm(n, d) ==
    IF d = 0 THEN <<Sign(n), 0>>
    ELSE LET s == IF d < 0 THEN -1 ELSE 1
             g == GCD(Abs(n), Abs(d))
         IN  <<(s * n) \div g, (s * d) \div g>>

R(n) ==
    <<n, 1>>

Zero ==
    <<0, 1>>

One ==
    <<1, 1>>

NaN ==
    <<0, 0>>

IsFinite(x) ==
    x[2] # 0

RAdd(x, y) ==
    IF x[2] = 1 /\ y[2] = 1 THEN <<x[1] + y[1], 1>>
    ELSE Norm(x[1] * y[2] + y[1] * x[2], x[2] * y[2])

RNeg(x) ==
    <<-x[1], x[2]>>

RSub(x, y) ==
    RAdd(x, RNeg(y))

RMul(x, y) ==
    IF x[2] = 1 /\ y[2] = 1 THEN <<x[1] * y[1], 1>>
    ELSE Norm(x[1] * y[1], x[2] * y[2])

\* x / y; x / 0 is an infinity of the sign of x, and 0 / 0 is NaN
RDiv(x, y) ==
    Norm(x[1] * y[2], x[2] * y[1])

\* -1, 0, 1 for -inf, a finite value, +inf
Class(x) ==
    IF IsFinite(x) THEN 0 ELSE x[1]

\* x < y; false when either is NaN
RLt(x, y) ==
    /\ x # NaN
    /\ y # NaN
    /\ IF IsFinite(x) /\ IsFinite(y)
       THEN x[1] * y[2] < y[1] * x[2]
       ELSE Class(x) < Class(y)

\* x <= y; false when either is NaN
RLe(x, y) ==
    /\ x # NaN
    /\ y # NaN
    /\ IF IsFinite(x) /\ IsFinite(y)
       THEN x[1] * y[2] <= y[1] * x[2]
       ELSE Class(x) <= Class(y)

\* fabs
RAbs(x) ==
    <<Abs(x[1]), x[2]>>

\* sum of f[i] for i in lo..hi (f a function to rationals), added in index order
RECURSIVE RSum(_, _, _)
RSum(f, lo, hi) ==
    IF hi < lo THEN Zero ELSE RAdd(RSum(f, lo, hi - 1), f[hi])

(***************************************************************************)
(* ForceConsistencyConservation3 (src/LinearRemapSE0.cpp:520-735).         *)
(* dCoeff has one row per overlap face and one column per GLL node.     *)
(***************************************************************************)
GetRows(m) ==
    Cardinality(DOMAIN m)

GetColumns(m) ==
    Cardinality(DOMAIN m[0])

\* One condition is dropped due to linear dependence
NumCond(dCf) ==
    GetColumns(dCf) + GetRows(dCf) - 1

NumCoeff(dCf) ==
    GetRows(dCf) * GetColumns(dCf)

\* dC[k][c]: the consistency columns, then the conservation columns
\* (the last conservation column is not written)
ConstraintMatrix(vecTgt, dCf) ==
    LET nRows == GetRows(dCf)
        nCols == GetColumns(dCf)
    IN  [k \in 0..(NumCoeff(dCf) - 1) |->
          [c \in 0..(NumCond(dCf) - 1) |->
             IF c < nRows
             THEN IF k \div nCols = c THEN One ELSE Zero
             ELSE IF k % nCols = c - nRows
                  THEN vecTgt[k \div nCols]
                  ELSE Zero]]

\* InitialRHS with the consistency targets left at 0
InitialRHSNoTarget(vecSrc, dCf) ==
    LET nRows == Cardinality(DOMAIN dCf)
        nCols == Cardinality(DOMAIN dCf[0])
        nCoeff == nRows * nCols
    IN  [k \in 0..(nCoeff + nRows + nCols - 2) |->
          IF k < nCoeff
          THEN dCf[k \div nCols][k % nCols]
          ELSE IF k - nCoeff < nRows
               THEN <<0, 1>>
               ELSE vecSrc[k - nCoeff - nRows]]

\* dRHS: the flattened coefficients, then the consistency targets (1.0),
\* then the conservation targets vecSrc[0 .. nCols-2]
InitialRHS(vecSrc, dCf) ==
    LET nRows == GetRows(dCf)
        nCols == GetColumns(dCf)
        nCoeff == NumCoeff(dCf)
    IN  [k \in 0..(nCoeff + NumCond(dCf) - 1) |->
          IF k < nCoeff
          THEN dCf[k \div nCols][k % nCols]
          ELSE IF k - nCoeff < nRows
               THEN One
               ELSE vecSrc[k - nCoeff - nRows]]

\* ProductMatrix with the number of rows on the top-left diagonal
ProductMatrixRowsOnDiagonal(vecTgt, dCf) ==
    LET nRows == Cardinality(DOMAIN dCf)
        nCols == Cardinality(DOMAIN dCf[0])
        dP == RSum([i \in 0..(nRows - 1) |->
                      RMul(vecTgt[i], vecTgt[i])], 0, nRows - 1)
    IN  [a \in 0..(nRows + nCols - 2) |->
          [b \in 0..(nRows + nCols - 2) |->
             IF a < nRows /\ b < nRows
             THEN IF a = b THEN <<nRows, 1>> ELSE <<0, 1>>
             ELSE IF a < nRows
                  THEN vecTgt[a]
                  ELSE IF b < nRows
                       THEN vecTgt[b]
                       ELSE IF a = b THEN dP ELSE <<0, 1>>]]

\* dCCt, filled analytically
ProductMatrix(vecTgt, dCf) ==
    LET nRows == GetRows(dCf)
        nCols == GetColumns(dCf)
        dP == RSum([i \in 0..(nRows - 1) |->
                      RMul(vecTgt[i], vecTgt[i])], 0, nRows - 1)
    IN  [a \in 0..(NumCond(dCf) - 1) |->
          [b \in 0..(NumCond(dCf) - 1) |->
             IF a < nRows /\ b < nRows
             THEN IF a = b THEN R(nCols) ELSE Zero
             ELSE IF a < nRows
                  THEN vecTgt[a]
                  ELSE IF b < nRows
                       THEN vecTgt[b]
                       ELSE IF a = b THEN dP ELSE Zero]]

\* GemvN with beta = 0: the conditions' targets are not subtracted
GemvNNoSubtract(dC, dRHS, nCoeff, nCond) ==
    [c \in 0..(nCond - 1) |->
       RSum([k \in 0..(nCoeff - 1) |-> RMul(dC[k][c], dRHS[k])], 0, nCoeff - 1)]

\* dgemv_('n', nCond, nCoeff, 1.0, dC, nCond, dRHS, 1, -1.0, dRHS + nCoeff, 1):
\* the row-major dC read column-major with lda = nCond is its transpose, so
\* the tail of dRHS becomes  dC^T * r1 - r2
GemvN(dC, dRHS, nCoeff, nCond) ==
    [c \in 0..(nCond - 1) |->
       RSub(RSum([k \in 0..(nCoeff - 1) |-> RMul(dC[k][c], dRHS[k])], 0, nCoeff - 1),
            dRHS[nCoeff + c])]

\* Elimination of column k of the symmetric matrix A from the rows below k;
\* the multipliers are kept below the diagonal, as a factorisation keeps them
EliminateStep(A, k, n) ==
    [i \in 0..(n - 1) |->
       IF i > k
       THEN LET f == RDiv(A[i][k], A[k][k])
            IN  [j \in 0..(n - 1) |->
                   IF j = k THEN f
                   ELSE IF j > k THEN RSub(A[i][j], RMul(f, A[k][j]))
                   ELSE A[i][j]]
       ELSE A[i]]

\* The factorisation of dposv_: info = k+1 when the leading minor of order
\* k+1 is not positive definite (the pivot is not positive, or is NaN), 0 when
\* it completes
RECURSIVE Factorise(_, _, _)
Factorise(A, k, n) ==
    IF k = n THEN [info |-> 0, A |-> A]
    ELSE IF ~RLt(Zero, A[k][k]) THEN [info |-> k + 1, A |-> A]
    ELSE Factorise(EliminateStep(A, k, n), k + 1, n)

\* Forward substitution with the multipliers of the factorisation: y[i] for i <= k
RECURSIVE ForwardSubstitute(_, _, _, _)
ForwardSubstitute(F, b, k, n) ==
    IF k < 0 THEN b
    ELSE LET y == ForwardSubstitute(F, b, k - 1, n)
         IN  [y EXCEPT ![k] =
                RSub(b[k], RSum([j \in 0..(n - 1) |->
                                   IF j < k THEN RMul(F[k][j], y[j]) ELSE Zero],
                                0, n - 1))]

\* Back substitution on the upper triangle: x[i] for i >= k
RECURSIVE BackSubstitute(_, _, _, _)
BackSubstitute(F, x, k, n) ==
    IF k < 0 THEN x
    ELSE LET s == RSum([j \in 0..(n - 1) |->
                          IF j > k THEN RMul(F[k][j], x[j]) ELSE Zero], 0, n - 1)
         IN  BackSubstitute(F, [x EXCEPT ![k] = RDiv(RSub(x[k], s), F[k][k])],
                            k - 1, n)

\* dposv_('U', n, 1, A, n, b, n, info): the solution of A x = b for a
\* symmetric positive definite A; info # 0 when A is not positive definite,
\* and b is then left as it is
Dposv(A, b, n) ==
    LET f == Factorise(A, 0, n)
    IN  IF f.info # 0
        THEN [info |-> f.info, x |-> b]
        ELSE [info |-> 0,
              x |-> BackSubstitute(f.A, ForwardSubstitute(f.A, b, n - 1, n),
                                   n - 1, n)]

\* dgemv_('t', nCond, nCoeff, -1.0, dC, nCond, z, 1, 1.0, dRHS, 1):
\* the head of dRHS becomes  r1 - dC * z
GemvT(dC, dRHS, z, nCoeff, nCond) ==
    [k \in 0..(nCoeff - 1) |->
       RSub(dRHS[k],
            RSum([c \in 0..(nCond - 1) |-> RMul(dC[k][c], z[c])], 0, nCond - 1))]

\* StoreCoefficients reading the solution with the strides exchanged
StoreCoefficientsTransposed(x, nRows, nCols) ==
    [i \in 0..(nRows - 1) |-> [j \in 0..(nCols - 1) |-> x[j * nRows + i]]]

\* Store coefficients in array
StoreCoefficients(x, nRows, nCols) ==
    [i \in 0..(nRows - 1) |-> [j \in 0..(nCols - 1) |-> x[i * nCols + j]]]

\* Total element Jacobian
TotalJacobian(vecSrc) ==
    RSum(vecSrc, 0, Cardinality(DOMAIN vecSrc) - 1)

\* Low-order remap coefficients dMonoCoeff[i][j]
MonoCoeff(vecSrc, dCf) ==
    [i \in DOMAIN dCf |->
       [j \in DOMAIN dCf[0] |->
          RDiv(vecSrc[j], TotalJacobian(vecSrc))]]

\* NewA with its denominator doubled
NewAHalved(c, d) ==
    IF RLt(c, Zero) THEN RDiv(RNeg(c), RMul(R(2), RAbs(RSub(d, c)))) ELSE Zero

\* dNewA of one entry: -c / fabs(d - c) for a negative c, no candidate otherwise
NewA(c, d) ==
    IF RLt(c, Zero) THEN RDiv(RNeg(c), RAbs(RSub(d, c))) ELSE Zero

\* ScalingFactorUpTo keeping the smaller of dA and dNewA
RECURSIVE ScalingFactorUpToMin(_, _, _, _)
ScalingFactorUpToMin(dCf, dMonoCoeff, nCols, k) ==
    IF k < 0 THEN <<0, 1>>
    ELSE LET i == k \div nCols
             j == k % nCols
             dA == ScalingFactorUpToMin(dCf, dMonoCoeff, nCols, k - 1)
             dNewA == NewA(dCf[i][j], dMonoCoeff[i][j])
         IN  IF RLt(dCf[i][j], <<0, 1>>) /\ RLt(dNewA, dA) THEN dNewA ELSE dA

\* The scaling factor dA over the entries with flat index 0..k
RECURSIVE ScalingFactorUpTo(_, _, _, _)
ScalingFactorUpTo(dCf, dMonoCoeff, nCols, k) ==
    IF k < 0 THEN Zero
    ELSE LET i == k \div nCols
             j == k % nCols
             dA == ScalingFactorUpTo(dCf, dMonoCoeff, nCols, k - 1)
             dNewA == NewA(dCf[i][j], dMonoCoeff[i][j])
         IN  IF RLt(dCf[i][j], Zero) /\ RLt(dA, dNewA) THEN dNewA ELSE dA

ScalingFactor(dCf, dMonoCoeff) ==
    ScalingFactorUpTo(dCf, dMonoCoeff, GetColumns(dCf), NumCoeff(dCf) - 1)

\* Blend without the donor term
BlendWithoutDonor(dA, dCf, dMonoCoeff) ==
    [i \in DOMAIN dCf |->
       [j \in DOMAIN dCf[0] |-> RMul(RSub(<<1, 1>>, dA), dCf[i][j])]]

\* dCoeff[i][j] = (1.0 - dA) * dCoeff[i][j] + dA * dMonoCoeff[i][j]
Blend(dA, dCf, dMonoCoeff) ==
    [i \in DOMAIN dCf |->
       [j \in DOMAIN dCf[0] |->
          RAdd(RMul(RSub(One, dA), dCf[i][j]), RMul(dA, dMonoCoeff[i][j]))]]

\* Force monotonicity
ForceMonotonicity(vecSrc, dCf) ==
    LET dMonoCoeff == MonoCoeff(vecSrc, dCf)
    IN  Blend(ScalingFactor(dCf, dMonoCoeff), dCf, dMonoCoeff)

\* SolveInfo with the result of dposv_ not looked at
SolveInfoIgnored(vecTgt, dCf) ==
    0

\* nInfo of the call: dposv_ factorises dCCt before it reads the right-hand side
SolveInfo(vecTgt, dCf) ==
    Factorise(ProductMatrix(vecTgt, dCf), 0, NumCond(dCf)).info

\* The whole call: nInfo of the SPD solve and dCoeff as the call leaves it
\* (untouched when the solve fails and the exception is raised)
ForceConsistencyConservation3(vecSrc, vecTgt, dCf, fMono) ==
    LET nCoeff == NumCoeff(dCf)
        nCond == NumCond(dCf)
        dC == ConstraintMatrix(vecTgt, dCf)
        dRHS == InitialRHS(vecSrc, dCf)
        dCCt == ProductMatrix(vecTgt, dCf)
        y == GemvN(dC, dRHS, nCoeff, nCond)
        sol == Dposv(dCCt, y, nCond)
        x == GemvT(dC, dRHS, sol.x, nCoeff, nCond)
        dSolved == StoreCoefficients(x, GetRows(dCf), GetColumns(dCf))
    IN  IF sol.info # 0
        THEN [nInfo |-> sol.info, dCoeff |-> dCf]
        ELSE [nInfo |-> 0,
              dCoeff |-> IF fMono
                         THEN ForceMonotonicity(vecSrc, dSolved)
                         ELSE dSolved]

(***************************************************************************)
(* LinearRemapSE4 (src/LinearRemapSE0.cpp:739-983).                        *)
(* Areas are counted in units of 1e-10, the tolerance of the coverage      *)
(* test; the corrector and the fold are homogeneous in the areas.          *)
(***************************************************************************)
\* Order of the polynomial interpolant, dataGLLNodes.GetRows()
NP == 2

MaxInputFaces == 2

MaxOutputFaces == 2

MaxOverlapFaces == 2

\* fabs(dTargetArea - meshInput.vecFaceArea[ixFirst]) > 1.0e-10, in area units
CoverageTol == 1

NumNodes ==
    NP * NP

\* dataGLLNodes[p][q][e], 1-based, of a strip of elements with continuous
\* nodes: neighbouring elements share the nodes of their common edge
StripWidth ==
    MaxInputFaces * (NP - 1) + 1

NumDOF ==
    NP * StripWidth

dataGLLNodes(p, q, e) ==
    p * StripWidth + e * (NP - 1) + q + 1

\* IsQuadrilateral accepting triangles as well
IsQuadrilateralOrTriangle(nEdges) ==
    nEdges \in {3, 4}

\* faceFirst.edges.size() != 4 raises; the loop body goes on when it is 4
IsQuadrilateral(nEdges) ==
    nEdges = 4

\* CountOverlapFaces stopping after the first face
CountOverlapFacesOne(first, ix, e) ==
    IF ix \in DOMAIN first /\ first[ix] = e THEN 1 ELSE 0

\* nOverlapFaces: the contiguous overlap faces from ix on whose first face is e
RECURSIVE CountOverlapFaces(_, _, _)
CountOverlapFaces(first, ix, e) ==
    IF ix \in DOMAIN first /\ first[ix] = e
    THEN 1 + CountOverlapFaces(first, ix + 1, e)
    ELSE 0

\* dRemapCoeff[p][q][j] as the quadrature leaves it: the sum over the
\* sub-triangles and quadrature points of W * dTriangleArea * dSampleCoeff,
\* divided by meshOverlap.vecFaceArea[ixOverlap + j]
RawRemapCoeff(quadSum, area) ==
    [j \in DOMAIN area |->
       [n \in 0..(NumNodes - 1) |-> RDiv(quadSum[j][n], area[j])]]

\* IsPartialElement with twice the tolerance
IsPartialElementLoose(dTargetArea, faceArea) ==
    RLt(R(2 * CoverageTol), RAbs(RSub(dTargetArea, faceArea)))

\* the coverage test that skips the corrector
IsPartialElement(dTargetArea, faceArea) ==
    RLt(R(CoverageTol), RAbs(RSub(dTargetArea, faceArea)))

\* FoldUpTo assigning the entries instead of adding to them
RECURSIVE FoldUpToAssign(_, _, _, _, _, _, _, _)
FoldUpToAssign(smat, coeff, area, second, outArea, e, ixOv, k) ==
    IF k < 0 THEN smat
    ELSE LET prev == FoldUpToAssign(smat, coeff, area, second, outArea, e, ixOv, k - 1)
             j == k \div NumNodes
             p == (k % NumNodes) \div NP
             q == (k % NumNodes) % NP
         IN  [prev EXCEPT ![<<second[ixOv + j], dataGLLNodes(p, q, e) - 1>>] =
                RDiv(RMul(coeff[j][p * NP + q], area[j]), outArea[second[ixOv + j]])]

\* smatMap after the entries of the element with flat index 0..k are added:
\* smatMap(ixSecondFace, ixFirstNode) +=
\*     dRemapCoeff[p][q][j] * vecFaceArea[ixOverlap + j] / vecFaceArea[ixSecondFace]
RECURSIVE FoldUpTo(_, _, _, _, _, _, _, _)
FoldUpTo(smat, coeff, area, second, outArea, e, ixOv, k) ==
    IF k < 0 THEN smat
    ELSE LET prev == FoldUpTo(smat, coeff, area, second, outArea, e, ixOv, k - 1)
             j == k \div NumNodes
             p == (k % NumNodes) \div NP
             q == (k % NumNodes) % NP
             ixSecondFace == second[ixOv + j]
             ixFirstNode == dataGLLNodes(p, q, e) - 1
         IN  [prev EXCEPT ![<<ixSecondFace, ixFirstNode>>] =
                RAdd(@, RDiv(RMul(coeff[j][p * NP + q], area[j]),
                             outArea[ixSecondFace]))]

FoldElement(smat, coeff, area, second, outArea, e, ixOv) ==
    FoldUpTo(smat, coeff, area, second, outArea, e, ixOv,
             Cardinality(DOMAIN area) * NumNodes - 1)

(***************************************************************************)
(* The corrector on its own: every input of the bounded sets, one call.    *)
(***************************************************************************)
MaxRows == 2

MaxCols == 2

MaxArea == 2

\* values of the raw coefficients
CoeffVals ==
    {R(-1), Zero, One}

\* source weights (Jacobians) and target weights (areas) are not negative
SourceAreaVals ==
    {R(a) : a \in 0..MaxArea}

TargetAreaVals ==
    {R(a) : a \in 0..MaxArea}

\* the variables of main while only a callee is run on its own
DrvIdle ==
    /\ strInputData = ""
    /\ strOutputData = ""
    /\ strVariables = <<>>
    /\ strOutputMap = ""
    /\ strMetaFile = ""
    /\ fInputSE = FALSE
    /\ fOutputSE = FALSE
    /\ fNoCheck = FALSE
    /\ iVarBegin = 0
    /\ iVarCurrent = 0
    /\ vecVariableStrings = <<>>
    /\ dTotalAreaInput = Zero
    /\ dTotalAreaOverlap = Zero
    /\ srcFaceIx = <<>>
    /\ tgtFaceIx = <<>>
    /\ fInverted = FALSE
    /\ kernelFirst = <<>>
    /\ kernelSecond = <<>>
    /\ drvLog = <<>>
    /\ strException = ""
    /\ exitStatus = -1
    /\ drvPc = "idle"

\* the locals of the quadrature loops outside of them
QuadIdle ==
    /\ nOverlapTriangles = <<>>
    /\ jFace = 0
    /\ kTri = 0
    /\ lPoint = 0
    /\ dAlpha = NaN
    /\ dBeta = NaN
    /\ dSampleAt = <<>>
    /\ dSampleCoeff = <<>>

\* the variables of LinearRemapSE4 while it is not running
SE4Idle ==
    /\ QuadIdle
    /\ nInputFaces = 0
    /\ inEdges = <<>>
    /\ nOutputFaces = 0
    /\ outFaceArea = <<>>
    /\ vecFirstFaceIx = <<>>
    /\ vecSecondFaceIx = <<>>
    /\ ixFirst = 0
    /\ ixOverlap = 0
    /\ smatMap = <<>>
    /\ dRemapCoeff = <<>>
    /\ se4Pc = "idle"
    /\ se4Err = ""
    /\ elemLog = <<>>

FCCInit ==
    /\ SE4Idle
    /\ DrvIdle
    /\ \E nRows \in 1..MaxRows, nCols \in 1..MaxCols :
         /\ dCoeff \in [0..(nRows - 1) -> [0..(nCols - 1) -> CoeffVals]]
         /\ vecSourceArea \in [0..(nCols - 1) -> SourceAreaVals]
         /\ vecTargetArea \in [0..(nRows - 1) -> TargetAreaVals]
    /\ fMonotone \in BOOLEAN
    /\ dCoeffIn = dCoeff
    /\ nInfo = 0
    /\ fccPc = "call"

\* the call returns normally
FCCReturn ==
    /\ fccPc = "call"
    /\ LET r == ForceConsistencyConservation3(vecSourceArea, vecTargetArea, dCoeff, fMonotone)
       IN  /\ r.nInfo = 0
           /\ dCoeff' = r.dCoeff
           /\ nInfo' = 0
    /\ fccPc' = "returned"
    /\ UNCHANGED <<vecSourceArea, vecTargetArea, fMonotone, dCoeffIn>>
    /\ UNCHANGED se4Vars
    /\ UNCHANGED drvVars
    /\ UNCHANGED quadVars

\* _EXCEPTION1("Unable to solve SPD Schur system: %i\n", nInfo)
FCCThrow ==
    /\ fccPc = "call"
    /\ LET r == ForceConsistencyConservation3(vecSourceArea, vecTargetArea, dCoeff, fMonotone)
       IN  /\ r.nInfo # 0
           /\ dCoeff' = r.dCoeff
           /\ nInfo' = r.nInfo
    /\ fccPc' = "thrown"
    /\ UNCHANGED <<vecSourceArea, vecTargetArea, fMonotone, dCoeffIn>>
    /\ UNCHANGED se4Vars
    /\ UNCHANGED drvVars
    /\ UNCHANGED quadVars

FCCNext ==
    \/ FCCReturn
    \/ FCCThrow

SpecFCC ==
    FCCInit /\ [][FCCNext]_vars

RowSum(m, i) ==
    RSum(m[i], 0, GetColumns(m) - 1)

\* sum_i vecTargetArea[i] * m[i][j]
ColumnSum(m, tgt, j) ==
    RSum([i \in 0..(GetRows(m) - 1) |-> RMul(tgt[i], m[i][j])], 0, GetRows(m) - 1)

\* the corrector returned from a call on at least two rows and two columns
ReturnedFromCall ==
    /\ fccPc = "returned"
    /\ GetRows(dCoeff) >= 2
    /\ GetColumns(dCoeff) >= 2

\* C1: whenever ForceConsistencyConservation3 returns normally, with fMonotone
\* false or true and the sum of vecSourceArea non-zero, every row of dCoeff
\* sums to exactly 1
C1_Consistency ==
    (fccPc = "returned" /\ TotalJacobian(vecSourceArea) # Zero) =>
        \A i \in DOMAIN dCoeff : RowSum(dCoeff, i) = One

\* a monotone call that returned, on rows that did not sum to 1 when passed in
C1_Witness ==
    /\ ReturnedFromCall
    /\ fMonotone
    /\ TotalJacobian(vecSourceArea) # Zero
    /\ \A i \in DOMAIN dCoeffIn : RowSum(dCoeffIn, i) # One
    /\ dCoeff # dCoeffIn

\* C3: after ForceConsistencyConservation3 returns with fMonotone = true,
\* every entry of dCoeff is >= 0, whenever every entry of vecSourceArea is
\* positive
C3_MonotoneNonNegative ==
    (/\ fccPc = "returned"
     /\ fMonotone
     /\ \A j \in DOMAIN vecSourceArea : RLt(Zero, vecSourceArea[j])) =>
        \A i \in DOMAIN dCoeff : \A j \in DOMAIN dCoeff[i] : RLe(Zero, dCoeff[i][j])

\* a monotone call with positive source weights whose solved coefficients,
\* before the blend, had a negative entry
C3_Witness ==
    /\ ReturnedFromCall
    /\ fMonotone
    /\ \A j \in DOMAIN vecSourceArea : RLt(Zero, vecSourceArea[j])
    /\ LET dSolved == ForceConsistencyConservation3(vecSourceArea, vecTargetArea,
                                                    dCoeffIn, FALSE).dCoeff
       IN  \E i \in DOMAIN dSolved : \E j \in DOMAIN dSolved[i] :
             RLt(dSolved[i][j], Zero)

\* m has every row sum equal to 1 and every column j, the last included,
\* satisfies sum_i vecTargetArea[i] * m[i][j] = vecSourceArea[j]
Feasible(m) ==
    /\ \A i \in DOMAIN m : RowSum(m, i) = One
    /\ \A j \in DOMAIN m[0] : ColumnSum(m, vecTargetArea, j) = vecSourceArea[j]

TransposeTimes(dC, nCoeff, a, b) ==
    RSum([k \in 0..(nCoeff - 1) |-> RMul(dC[k][a], dC[k][b])], 0, nCoeff - 1)

ScalarSteps == 4

\* the entries of m that are negative
NegativeEntries(m) ==
    {ij \in (DOMAIN m) \X (DOMAIN m[0]) : RLt(m[ij[1]][ij[2]], Zero)}

\* -C[i][j] / |D[i][j] - C[i][j]| over the negative entries of C
BlendCandidates(mC, mD) ==
    {RDiv(RNeg(mC[ij[1]][ij[2]]), RAbs(RSub(mD[ij[1]][ij[2]], mC[ij[1]][ij[2]]))) :
       ij \in NegativeEntries(mC)}

\* their maximum, 0 when there is none
MaxCandidate(mC, mD) ==
    IF BlendCandidates(mC, mD) = {} THEN Zero
    ELSE CHOOSE x \in BlendCandidates(mC, mD) :
            \A y \in BlendCandidates(mC, mD) : RLe(y, x)

\* scalars of [0, dA)
SmallerScalars(dA) ==
    {s \in {RMul(dA, Norm(k, ScalarSteps)) : k \in 0..(ScalarSteps - 1)} : RLt(s, dA)}

\* C17: in a call with fMonotone = true and positive source weights that
\* returns, the scalar dA computed from the solved coefficients C and the
\* donor D[i][j] = vecSourceArea[j] / sum_k vecSourceArea[k] is the maximum
\* over the negative entries of -C[i][j] / |D[i][j] - C[i][j]|, lies in
\* [0,1], is 0 and leaves C unchanged when no entry is negative, is the
\* scalar dCoeff was blended with, and is minimal: the blend with any
\* smaller scalar of [0, dA) has a negative entry
C17_BlendScalar ==
    (/\ fccPc = "returned"
     /\ fMonotone
     /\ \A j \in DOMAIN vecSourceArea : RLt(Zero, vecSourceArea[j])) =>
        \A mC \in {ForceConsistencyConservation3(vecSourceArea, vecTargetArea,
                                                 dCoeffIn, FALSE).dCoeff} :
          \A mD \in {MonoCoeff(vecSourceArea, mC)} :
            \A dA \in {ScalingFactor(mC, mD)} :
               /\ dA = MaxCandidate(mC, mD)
               /\ RLe(Zero, dA)
               /\ RLe(dA, One)
               /\ dCoeff = Blend(dA, mC, mD)
               /\ NegativeEntries(mC) = {} => (dA = Zero /\ dCoeff = mC)
               /\ \A s \in SmallerScalars(dA) : NegativeEntries(Blend(s, mC, mD)) # {}

\* a monotone call with positive source weights whose solved coefficients
\* had two negative entries with different candidates, blended with a
\* scalar strictly between 0 and 1
C17_Witness ==
    /\ ReturnedFromCall
    /\ fMonotone
    /\ \A j \in DOMAIN vecSourceArea : RLt(Zero, vecSourceArea[j])
    /\ \E mC \in {ForceConsistencyConservation3(vecSourceArea, vecTargetArea,
                                                 dCoeffIn, FALSE).dCoeff} :
          /\ Cardinality(BlendCandidates(mC, MonoCoeff(vecSourceArea, mC))) >= 2
          /\ RLt(Zero, MaxCandidate(mC, MonoCoeff(vecSourceArea, mC)))
          /\ RLt(MaxCandidate(mC, MonoCoeff(vecSourceArea, mC)), One)
          /\ dCoeff # mC

\* column j of m satisfies sum_i vecTargetArea[i] * m[i][j] = vecSourceArea[j]
Conserves(m, j) ==
    ColumnSum(m, vecTargetArea, j) = vecSourceArea[j]

\* C18 as claimed: in a call with fMonotone = true that returns, for every
\* column j in which the corrected C satisfies conservation, the blended
\* dCoeff satisfies it if and only if the donor D does
C18_BlendConservation ==
    (fccPc = "returned" /\ fMonotone) =>
        \A mC \in {ForceConsistencyConservation3(vecSourceArea, vecTargetArea,
                                                 dCoeffIn, FALSE).dCoeff} :
          \A mD \in {MonoCoeff(vecSourceArea, mC)} :
            \A j \in DOMAIN vecSourceArea :
               Conserves(mC, j) => (Conserves(dCoeff, j) <=> Conserves(mD, j))

\* C18 as the code has it: in a call with fMonotone = true that returns,
\* with a non-zero sum of source weights, dCoeff is the blend
\* (1 - dA) C + dA D with nothing done to it afterwards, and for every column
\* j in which the corrected C satisfies conservation the blended dCoeff
\* satisfies it if and only if dA = 0 or the donor D does
C18_BlendConservationUnlessUnblended ==
    (fccPc = "returned" /\ fMonotone /\ TotalJacobian(vecSourceArea) # Zero) =>
        \A mC \in {ForceConsistencyConservation3(vecSourceArea, vecTargetArea,
                                                 dCoeffIn, FALSE).dCoeff} :
          \A mD \in {MonoCoeff(vecSourceArea, mC)} :
            \A dA \in {ScalingFactor(mC, mD)} :
               /\ dCoeff = Blend(dA, mC, mD)
               /\ \A j \in DOMAIN vecSourceArea :
                     Conserves(mC, j) =>
                        (Conserves(dCoeff, j) <=> (dA = Zero \/ Conserves(mD, j)))

\* a monotone call blended with a positive scalar: in a column that the
\* corrected coefficients conserved the donor does not, and the blended
\* coefficients do not either; in another column all three do
C18_Witness ==
    /\ ReturnedFromCall
    /\ fMonotone
    /\ TotalJacobian(vecSourceArea) # Zero
    /\ \E mC \in {ForceConsistencyConservation3(vecSourceArea, vecTargetArea,
                                                 dCoeffIn, FALSE).dCoeff} :
          \E mD \in {MonoCoeff(vecSourceArea, mC)} :
             /\ RLt(Zero, ScalingFactor(mC, mD))
             /\ \E j \in DOMAIN vecSourceArea :
                   /\ Conserves(mC, j)
                   /\ ~Conserves(mD, j)
                   /\ ~Conserves(dCoeff, j)

(***************************************************************************)
(* The kernel LinearRemapSE4: one action per iteration of its loop over    *)
(* the input faces.  The numeric fields that only one iteration reads      *)
(* (the areas of its overlap faces, the area and the Jacobians of its      *)
(* element, its quadrature sums) are drawn when that iteration reads them. *)
(***************************************************************************)
EdgeCounts ==
    {3, 4}

FaceAreaVals ==
    {R(1), R(3)}

\* meshOverlap.vecFaceArea of one overlap face
OverlapAreaVals ==
    {Zero, One}

\* quadrature sums of one overlap face per unit of its area: a row with a
\* negative entry that sums to 1, and a row that does not sum to 1
QuadRows ==
    { [n \in 0..(NumNodes - 1) |->
         IF n = 0 THEN <<3, 2>> ELSE IF n = NumNodes - 1 THEN <<-1, 2>> ELSE Zero],
      [n \in 0..(NumNodes - 1) |-> <<1, 2>>] }

\* dataGLLJacobian[p][q][e] of one element, by p * nP + q
JacobianRows ==
    { [n \in 0..(NumNodes - 1) |-> Norm(1, NumNodes)],
      [n \in 0..(NumNodes - 1) |-> Norm((n % 2) + 1, 2)] }

FCCIdle ==
    /\ vecSourceArea = <<>>
    /\ vecTargetArea = <<>>
    /\ dCoeff = <<>>
    /\ dCoeffIn = <<>>
    /\ nInfo = 0
    /\ fccPc = "idle"

SE4Init ==
    /\ FCCIdle
    /\ QuadIdle
    /\ DrvIdle
    /\ fMonotone \in BOOLEAN
    /\ nInputFaces \in 0..MaxInputFaces
    /\ inEdges \in [0..(nInputFaces - 1) -> EdgeCounts]
    /\ nOutputFaces \in 1..MaxOutputFaces
    /\ outFaceArea = [r \in 0..(nOutputFaces - 1) |-> R(r + 1)]
    /\ \E nOverlap \in 0..MaxOverlapFaces :
         /\ vecFirstFaceIx \in [0..(nOverlap - 1) -> 0..(MaxInputFaces - 1)]
         /\ vecSecondFaceIx \in [0..(nOverlap - 1) -> 0..(nOutputFaces - 1)]
    /\ ixFirst = 0
    /\ ixOverlap = 0
    /\ smatMap = [rc \in (0..(nOutputFaces - 1)) \X (0..(NumDOF - 1)) |-> Zero]
    /\ dRemapCoeff = <<>>
    /\ se4Pc = "loop"
    /\ se4Err = ""
    /\ elemLog = <<>>

nOverlapFaces ==
    CountOverlapFaces(vecFirstFaceIx, ixOverlap, ixFirst)

InLoop ==
    /\ se4Pc = "loop"
    /\ ixFirst < nInputFaces

\* what one iteration read and computed; the overlap faces it covers are
\* ixOverlap .. ixOverlap + Cardinality(DOMAIN area) - 1
LogEntry(kind, faceArea, area, jac, raw, coeff) ==
    [e |-> ixFirst, ixOverlap |-> ixOverlap, nOverlapFaces |-> Cardinality(DOMAIN area),
     kind |-> kind, faceArea |-> faceArea, area |-> area, jac |-> jac,
     raw |-> raw, coeff |-> coeff]

\* _EXCEPTIONT("Only quadrilateral elements allowed for SE remapping")
SE4NotQuad ==
    /\ InLoop
    /\ ~IsQuadrilateral(inEdges[ixFirst])
    /\ se4Pc' = "error"
    /\ se4Err' = "Only quadrilateral elements allowed for SE remapping"
    /\ elemLog' = Append(elemLog, LogEntry("notquad", Zero, <<>>, <<>>, <<>>, <<>>))
    /\ UNCHANGED <<nInputFaces, inEdges, nOutputFaces, outFaceArea, vecFirstFaceIx,
                   vecSecondFaceIx, ixFirst, ixOverlap, smatMap, dRemapCoeff>>
    /\ UNCHANGED fccVars
    /\ UNCHANGED drvVars
    /\ UNCHANGED quadVars

\* No overlaps: continue
SE4NoOverlaps ==
    /\ InLoop
    /\ IsQuadrilateral(inEdges[ixFirst])
    /\ nOverlapFaces = 0
    /\ ixFirst' = ixFirst + 1
    /\ elemLog' = Append(elemLog, LogEntry("skip", Zero, <<>>, <<>>, <<>>, <<>>))
    /\ UNCHANGED <<nInputFaces, inEdges, nOutputFaces, outFaceArea, vecFirstFaceIx,
                   vecSecondFaceIx, ixOverlap, smatMap, dRemapCoeff, se4Pc, se4Err>>
    /\ UNCHANGED fccVars
    /\ UNCHANGED drvVars
    /\ UNCHANGED quadVars

HasOverlaps ==
    /\ InLoop
    /\ IsQuadrilateral(inEdges[ixFirst])
    /\ nOverlapFaces > 0

\* reference coordinates (dAlpha, dBeta) the inverse map returns for a
\* quadrature point
InverseMapVals ==
    {Norm(-1, 2), Norm(-1, 8), Zero, Norm(1, 2), One, Norm(9, 8), Norm(3, 2)}

\* Check inverse map value
InverseMapOutOfRange(alpha, beta) ==
    \/ RLt(alpha, Zero)
    \/ RLt(One, alpha)
    \/ RLt(beta, Zero)
    \/ RLt(One, beta)

\* _EXCEPTION2("Inverse Map out of range (%1.5e %1.5e)", dAlpha, dBeta) at a
\* quadrature point of the element; the other iterations below are those in
\* which every quadrature point passes the check
SE4InverseMapFailed ==
    /\ HasOverlaps
    /\ \E alpha \in InverseMapVals, beta \in InverseMapVals :
          InverseMapOutOfRange(alpha, beta)
    /\ se4Pc' = "error"
    /\ se4Err' = "Inverse Map out of range"
    /\ elemLog' = Append(elemLog, LogEntry("inverse", Zero, <<>>, <<>>, <<>>, <<>>))
    /\ UNCHANGED <<nInputFaces, inEdges, nOutputFaces, outFaceArea, vecFirstFaceIx,
                   vecSecondFaceIx, ixFirst, ixOverlap, smatMap, dRemapCoeff>>
    /\ UNCHANGED fccVars
    /\ UNCHANGED drvVars
    /\ UNCHANGED quadVars

\* Partial element: the corrector is skipped and the raw coefficients folded
SE4Partial ==
    /\ HasOverlaps
    /\ \E area \in [0..(nOverlapFaces - 1) -> OverlapAreaVals],
          faceArea \in FaceAreaVals,
          rows \in [0..(nOverlapFaces - 1) -> QuadRows],
          jac \in JacobianRows :
         LET quadSum == [j \in DOMAIN area |->
                           [n \in 0..(NumNodes - 1) |-> RMul(rows[j][n], area[j])]]
             raw == RawRemapCoeff(quadSum, area)
             dTargetArea == RSum(area, 0, nOverlapFaces - 1)
         IN  /\ IsPartialElement(dTargetArea, faceArea)
             /\ vecSourceArea' = jac
             /\ vecTargetArea' = area
             /\ dRemapCoeff' = raw
             /\ smatMap' = FoldElement(smatMap, raw, area, vecSecondFaceIx,
                                       outFaceArea, ixFirst, ixOverlap)
             /\ elemLog' = Append(elemLog,
                                  LogEntry("partial", faceArea, area, jac, raw, raw))
    /\ ixOverlap' = ixOverlap + nOverlapFaces
    /\ ixFirst' = ixFirst + 1
    /\ UNCHANGED <<nInputFaces, inEdges, nOutputFaces, outFaceArea, vecFirstFaceIx,
                   vecSecondFaceIx, se4Pc, se4Err>>
    /\ UNCHANGED <<dCoeff, fMonotone, dCoeffIn, nInfo, fccPc>>
    /\ UNCHANGED drvVars
    /\ UNCHANGED quadVars

\* Full coverage: ForceConsistencyConservation3 returns, the corrected
\* coefficients are folded
SE4Corrected ==
    /\ HasOverlaps
    /\ \E area \in [0..(nOverlapFaces - 1) -> OverlapAreaVals],
          faceArea \in FaceAreaVals,
          rows \in [0..(nOverlapFaces - 1) -> QuadRows],
          jac \in JacobianRows :
         LET quadSum == [j \in DOMAIN area |->
                           [n \in 0..(NumNodes - 1) |-> RMul(rows[j][n], area[j])]]
             raw == RawRemapCoeff(quadSum, area)
             dTargetArea == RSum(area, 0, nOverlapFaces - 1)
         IN  /\ ~IsPartialElement(dTargetArea, faceArea)
             /\ SolveInfo(area, raw) = 0
             /\ \E r \in {ForceConsistencyConservation3(jac, area, raw, fMonotone)} :
                  /\ vecSourceArea' = jac
                  /\ vecTargetArea' = area
                  /\ dCoeffIn' = raw
                  /\ dCoeff' = r.dCoeff
                  /\ nInfo' = r.nInfo
                  /\ dRemapCoeff' = r.dCoeff
                  /\ smatMap' = FoldElement(smatMap, r.dCoeff, area, vecSecondFaceIx,
                                            outFaceArea, ixFirst, ixOverlap)
                  /\ elemLog' = Append(elemLog,
                                       LogEntry("corrected", faceArea, area, jac, raw,
                                                r.dCoeff))
    /\ ixOverlap' = ixOverlap + nOverlapFaces
    /\ ixFirst' = ixFirst + 1
    /\ UNCHANGED <<nInputFaces, inEdges, nOutputFaces, outFaceArea, vecFirstFaceIx,
                   vecSecondFaceIx, se4Pc, se4Err>>
    /\ UNCHANGED <<fMonotone, fccPc>>
    /\ UNCHANGED drvVars
    /\ UNCHANGED quadVars

\* Full coverage: ForceConsistencyConservation3 raises
\* "Unable to solve SPD Schur system"
SE4SchurFailed ==
    /\ HasOverlaps
    /\ \E area \in [0..(nOverlapFaces - 1) -> OverlapAreaVals],
          faceArea \in FaceAreaVals,
          rows \in [0..(nOverlapFaces - 1) -> QuadRows],
          jac \in JacobianRows :
         LET quadSum == [j \in DOMAIN area |->
                           [n \in 0..(NumNodes - 1) |-> RMul(rows[j][n], area[j])]]
             raw == RawRemapCoeff(quadSum, area)
             dTargetArea == RSum(area, 0, nOverlapFaces - 1)
             r == ForceConsistencyConservation3(jac, area, raw, fMonotone)
         IN  /\ ~IsPartialElement(dTargetArea, faceArea)
             /\ SolveInfo(area, raw) # 0
             /\ vecSourceArea' = jac
             /\ vecTargetArea' = area
             /\ dCoeffIn' = raw
             /\ dCoeff' = r.dCoeff
             /\ nInfo' = r.nInfo
             /\ dRemapCoeff' = raw
             /\ elemLog' = Append(elemLog,
                                  LogEntry("schur", faceArea, area, jac, raw, raw))
    /\ se4Pc' = "error"
    /\ se4Err' = "Unable to solve SPD Schur system"
    /\ UNCHANGED <<nInputFaces, inEdges, nOutputFaces, outFaceArea, vecFirstFaceIx,
                   vecSecondFaceIx, ixFirst, ixOverlap, smatMap>>
    /\ UNCHANGED <<fMonotone, fccPc>>
    /\ UNCHANGED drvVars
    /\ UNCHANGED quadVars

\* the loop ends and the kernel returns
SE4Return ==
    /\ se4Pc = "loop"
    /\ ixFirst >= nInputFaces
    /\ se4Pc' = "done"
    /\ UNCHANGED <<nInputFaces, inEdges, nOutputFaces, outFaceArea, vecFirstFaceIx,
                   vecSecondFaceIx, ixFirst, ixOverlap, smatMap, dRemapCoeff, se4Err,
                   elemLog>>
    /\ UNCHANGED fccVars
    /\ UNCHANGED drvVars
    /\ UNCHANGED quadVars

SE4Next ==
    \/ SE4NotQuad
    \/ SE4NoOverlaps
    \/ SE4InverseMapFailed
    \/ SE4Partial
    \/ SE4Corrected
    \/ SE4SchurFailed
    \/ SE4Return

SpecSE4 ==
    SE4Init /\ [][SE4Next]_vars

(***************************************************************************)
(* Properties of the kernel, stated over the record of its iterations.     *)
(***************************************************************************)
\* the iterations that ran the corrector to a normal return
CorrectedEntries ==
    {k \in DOMAIN elemLog : elemLog[k].kind = "corrected"}

\* sum over the overlap faces j of m[j][n], for a fixed node n
NodeSum(m, n) ==
    RSum([j \in DOMAIN m |-> m[j][n]], 0, GetRows(m) - 1)

\* C2: for every source element that passes the coverage test, after
\* ForceConsistencyConservation3 with fMonotone = false every column j of
\* dCoeff, the last one included, satisfies
\* sum_i vecTargetArea[i] * dCoeff[i][j] = vecSourceArea[j]
C2_Conservation ==
    ~fMonotone =>
        \A k \in CorrectedEntries :
           \A n \in 0..(NumNodes - 1) :
              ColumnSum(elemLog[k].coeff, elemLog[k].area, n) = elemLog[k].jac[n]

\* C4 as the data model states it: for every source element with complete
\* coverage, after the corrector has run, for every GLL node (p,q) the sum
\* over the overlap faces j of dRemapCoeff[p][q][j] equals 1
C4_NodeSumsToOne ==
    \A k \in CorrectedEntries :
       \A n \in 0..(NumNodes - 1) : NodeSum(elemLog[k].coeff, n) = One

\* C4 as the code enforces it: for every source element with complete
\* coverage, after the corrector has run, for every overlap face j the sum
\* over the GLL nodes (p,q) of dRemapCoeff[p][q][j] equals 1
\* (no overlap face of zero area: the quadrature divides by the area)
C4_FaceSumsToOne ==
    \A k \in CorrectedEntries :
       (\A j \in DOMAIN elemLog[k].area : elemLog[k].area[j] # Zero) =>
           \A j \in DOMAIN elemLog[k].coeff : RowSum(elemLog[k].coeff, j) = One

\* an element of two overlap faces went through the corrector, and its raw
\* coefficients did not sum to 1 over the nodes of either face
C4_Witness ==
    \E k \in CorrectedEntries :
       /\ elemLog[k].nOverlapFaces = 2
       /\ \A j \in DOMAIN elemLog[k].area : elemLog[k].area[j] # Zero
       /\ \A j \in DOMAIN elemLog[k].raw : RowSum(elemLog[k].raw, j) # One
       /\ dRemapCoeff = elemLog[k].coeff

\* the record of the iteration that ended last
LastEntry ==
    elemLog[Len(elemLog)]

\* the overlap face areas of an iteration sum to a value that differs from
\* the area of its source face by more than 1e-10
CoverageMismatch(entry) ==
    LET d == RSub(RSum(entry.area, 0, entry.nOverlapFaces - 1), entry.faceArea)
    IN  RLt(R(CoverageTol), d) \/ RLt(d, R(-CoverageTol))

\* C5: for a source element whose overlap face areas sum to a value differing
\* from meshInput.vecFaceArea[e] by more than 1e-10, the iteration does not
\* call ForceConsistencyConservation3, leaves the raw coefficients as the
\* quadrature computed them, folds them into the sparse map and goes on to
\* the next source element without an error
C5_PartialBypass ==
    [][(/\ Len(elemLog') = Len(elemLog) + 1
        /\ elemLog'[Len(elemLog')].nOverlapFaces > 0
        /\ CoverageMismatch(elemLog'[Len(elemLog')])) =>
         LET entry == elemLog'[Len(elemLog')]
         IN  /\ UNCHANGED <<dCoeff, dCoeffIn, nInfo, fccPc>>
             /\ dRemapCoeff' = entry.raw
             /\ entry.coeff = entry.raw
             /\ smatMap' = FoldElement(smatMap, entry.raw, entry.area, vecSecondFaceIx,
                                       outFaceArea, ixFirst, ixOverlap)
             /\ ixFirst' = ixFirst + 1
             /\ ixOverlap' = ixOverlap + entry.nOverlapFaces
             /\ se4Pc' = "loop"
             /\ se4Err' = ""]_vars

\* a partial element was folded after an element that went through the
\* corrector, and its raw coefficients reached the sparse map
C5_Witness ==
    /\ Len(elemLog) = 2
    /\ elemLog[1].kind = "corrected"
    /\ LastEntry.nOverlapFaces > 0
    /\ CoverageMismatch(LastEntry)
    /\ dRemapCoeff = LastEntry.raw
    /\ dCoeffIn = elemLog[1].raw
    /\ dCoeffIn # LastEntry.raw
    /\ se4Pc = "loop"
    /\ \E rc \in DOMAIN smatMap : smatMap[rc] # Zero

\* the iterations that folded their overlap faces into the sparse map
Folded(k) ==
    elemLog[k].kind \in {"partial", "corrected"}

\* the overlap faces folded by the first k iterations, in the order folded
RECURSIVE FoldedFaces(_)
FoldedFaces(k) ==
    IF k = 0 THEN <<>>
    ELSE IF Folded(k)
         THEN FoldedFaces(k - 1) \o
              [j \in 1..elemLog[k].nOverlapFaces |-> elemLog[k].ixOverlap + j - 1]
         ELSE FoldedFaces(k - 1)

NumOverlapFaces ==
    Cardinality(DOMAIN vecFirstFaceIx)

\* the overlap faces are sorted ascending by vecFirstFaceIx, and every index
\* is below the number of input faces
SortedByFirstFace ==
    /\ \A i, j \in DOMAIN vecFirstFaceIx :
          i <= j => vecFirstFaceIx[i] <= vecFirstFaceIx[j]
    /\ \A i \in DOMAIN vecFirstFaceIx : vecFirstFaceIx[i] < nInputFaces

\* C6: if the overlap faces are sorted ascending by vecFirstFaceIx with every
\* index below the number of input faces, the source faces are visited in
\* ascending index, the overlap faces are folded in input order 0, 1, ...,
\* each once and under the source element equal to its vecFirstFaceIx, a
\* source face without overlap faces leaves the cursor where it is, and the
\* cursor equals the number of overlap faces when the kernel returns
C6_Ordering ==
    (se4Pc # "idle" /\ SortedByFirstFace) =>
        /\ \A k \in DOMAIN elemLog : elemLog[k].e = k - 1
        /\ \A k \in DOMAIN elemLog :
              Folded(k) =>
                 \A j \in 0..(elemLog[k].nOverlapFaces - 1) :
                    vecFirstFaceIx[elemLog[k].ixOverlap + j] = elemLog[k].e
        /\ \A k \in DOMAIN elemLog :
              elemLog[k].kind = "skip" =>
                 IF k < Len(elemLog)
                 THEN elemLog[k + 1].ixOverlap = elemLog[k].ixOverlap
                 ELSE ixOverlap = elemLog[k].ixOverlap
        /\ se4Pc # "error" =>
              FoldedFaces(Len(elemLog)) = [i \in 1..ixOverlap |-> i - 1]
        /\ se4Pc = "done" => ixOverlap = NumOverlapFaces

\* the kernel returned from sorted overlap faces after it skipped a source
\* face without overlap faces and folded two overlap faces of the next one
C6_Witness ==
    /\ se4Pc = "done"
    /\ SortedByFirstFace
    /\ NumOverlapFaces = 2
    /\ Len(elemLog) = 2
    /\ elemLog[1].kind = "skip"
    /\ Folded(2)
    /\ ixOverlap = 2

\* what one iteration adds to the entry (row, col) of the sparse map
Contribution(entry, row, col) ==
    RSum([t \in 0..(entry.nOverlapFaces * NumNodes - 1) |->
            LET j == t \div NumNodes
                p == (t % NumNodes) \div NP
                q == (t % NumNodes) % NP
            IN  IF /\ vecSecondFaceIx[entry.ixOverlap + j] = row
                   /\ dataGLLNodes(p, q, entry.e) - 1 = col
                THEN RDiv(RMul(entry.coeff[j][p * NP + q], entry.area[j]),
                          outFaceArea[row])
                ELSE Zero],
         0, entry.nOverlapFaces * NumNodes - 1)

\* the sum of the contributions of all iterations that folded
Assembled(row, col) ==
    RSum([k \in DOMAIN elemLog |->
            IF Folded(k) THEN Contribution(elemLog[k], row, col) ELSE Zero],
         1, Len(elemLog))

\* C7: when LinearRemapSE4 returns, every entry (row, col) of the sparse map
\* equals its value before the call (zero: the map is freshly constructed)
\* plus the sum over the processed (e, j, p, q) with vecSecondFaceIx[j] = row
\* and dataGLLNodes[p][q][e] - 1 = col of
\* dRemapCoeff[p][q][j] * overlapFaceArea[j] / outputFaceArea[row]
C7_Assembly ==
    se4Pc = "done" =>
        \A rc \in DOMAIN smatMap :
           smatMap[rc] = RAdd(Zero, Assembled(rc[1], rc[2]))

\* the kernel returned after two source elements added non-zero values to
\* the same entry, a DOF on their common edge
C7_Witness ==
    /\ se4Pc = "done"
    /\ Len(elemLog) = 2
    /\ Folded(1)
    /\ Folded(2)
    /\ \E rc \in DOMAIN smatMap :
          LET c1 == Contribution(elemLog[1], rc[1], rc[2])
              c2 == Contribution(elemLog[2], rc[1], rc[2])
          IN  /\ IsFinite(c1) /\ c1 # Zero
              /\ IsFinite(c2) /\ c2 # Zero
              /\ smatMap[rc] = RAdd(c1, c2)

\* some face of the input mesh has an edge count other than 4
HasNonQuad ==
    \E e \in 0..(nInputFaces - 1) : inEdges[e] # 4

\* the first such face in ascending index
FirstNonQuad ==
    CHOOSE e \in 0..(nInputFaces - 1) :
       /\ inEdges[e] # 4
       /\ \A f \in 0..(e - 1) : inEdges[f] = 4

\* C11: if any face of the input mesh has an edge count other than 4,
\* LinearRemapSE4 never returns normally; the loop never passes the first
\* such face, an error raised at that face is the quadrilateral error whether
\* or not the face has overlap faces, and no source element of an equal or
\* higher index has folded anything: the sparse map holds exactly the
\* contributions of the elements below it
C11_UnsupportedElement ==
    (se4Pc # "idle" /\ HasNonQuad) =>
        /\ se4Pc # "done"
        /\ ixFirst <= FirstNonQuad
        /\ (se4Pc = "error" /\ ixFirst = FirstNonQuad) =>
              /\ se4Err = "Only quadrilateral elements allowed for SE remapping"
              /\ LastEntry.kind = "notquad"
              /\ LastEntry.e = FirstNonQuad
        /\ \A k \in DOMAIN elemLog : Folded(k) => elemLog[k].e < FirstNonQuad
        /\ \A rc \in DOMAIN smatMap :
              smatMap[rc] = RAdd(Zero, Assembled(rc[1], rc[2]))

\* the kernel folded element 0, reached the triangle at index 1, which has
\* an overlap face waiting at the cursor, and raised the error there
C11_Witness ==
    /\ se4Pc = "error"
    /\ se4Err = "Only quadrilateral elements allowed for SE remapping"
    /\ HasNonQuad
    /\ FirstNonQuad = 1
    /\ ixFirst = 1
    /\ Folded(1)
    /\ ixOverlap \in DOMAIN vecFirstFaceIx
    /\ vecFirstFaceIx[ixOverlap] = 1
    /\ \E rc \in DOMAIN smatMap : IsFinite(smatMap[rc]) /\ smatMap[rc] # Zero

\* C13: if the SPD solver reports a non-zero info value,
\* ForceConsistencyConservation3 raises before it writes to dCoeff (dCoeff
\* keeps its input values, with fMonotone set as well: no blend), the kernel
\* ends with that error, and nothing of the source element is folded: the
\* sparse map holds the contributions of the elements before it only
C13_SchurFailure ==
    (se4Pc # "idle" /\ nInfo # 0) =>
        /\ se4Pc = "error"
        /\ se4Err = "Unable to solve SPD Schur system"
        /\ dCoeff = dCoeffIn
        /\ LastEntry.kind = "schur"
        /\ LastEntry.e = ixFirst
        /\ dRemapCoeff = LastEntry.raw
        /\ dCoeffIn = LastEntry.raw
        /\ \A k \in DOMAIN elemLog : Folded(k) => elemLog[k].e < ixFirst
        /\ \A rc \in DOMAIN smatMap :
              smatMap[rc] = RAdd(Zero, Assembled(rc[1], rc[2]))

\* the solve failed in monotone mode for the second source element, after
\* the first was corrected, blended and folded
C13_Witness ==
    /\ se4Err = "Unable to solve SPD Schur system"
    /\ nInfo # 0
    /\ fMonotone
    /\ Len(elemLog) = 2
    /\ elemLog[1].kind = "corrected"
    /\ LastEntry.kind = "schur"
    /\ LastEntry.nOverlapFaces > 0
    /\ dCoeff = dCoeffIn
    /\ \E rc \in DOMAIN smatMap : IsFinite(smatMap[rc]) /\ smatMap[rc] # Zero

(***************************************************************************)
(* The quadrature loops of one iteration of LinearRemapSE4                 *)
(* (src/LinearRemapSE0.cpp:826-916) on their own: the first source element *)
(* with its overlap faces, one action per quadrature point.                *)
(***************************************************************************)
\* triquadrule.GetPoints(), bounded
TriQuadraturePoints == 2

MaxOverlapTriangles == 2

\* TriQuadratureW[l], a rule of equal weights
TriQuadratureW(l) ==
    Norm(1, TriQuadraturePoints)

\* meshOverlap.vecFaceArea[ixOverlap + j]
QuadFaceArea(j) ==
    R(j + 1)

\* CalculateFaceArea(faceTri, nodesOverlap) for a fan of equal sub-triangles
dTriangleArea(j) ==
    RDiv(QuadFaceArea(j), R(nOverlapTriangles[j]))

\* the values SampleGLLFiniteElement leaves in dSampleCoeff, by p * nP + q
SampleRows ==
    QuadRows

QuadInit ==
    /\ FCCIdle
    /\ DrvIdle
    /\ fMonotone \in BOOLEAN
    /\ nInputFaces = 1
    /\ inEdges = [e \in 0..0 |-> 4]
    /\ nOutputFaces = 1
    /\ outFaceArea = [r \in 0..0 |-> One]
    /\ \E n \in 1..MaxOverlapFaces :
         /\ vecFirstFaceIx = [i \in 0..(n - 1) |-> 0]
         /\ vecSecondFaceIx = [i \in 0..(n - 1) |-> 0]
         /\ nOverlapTriangles \in [0..(n - 1) -> 1..MaxOverlapTriangles]
         \* dRemapCoeff.Initialize(nP, nP, nOverlapFaces)
         /\ dRemapCoeff = [j \in 0..(n - 1) |-> [m \in 0..(NumNodes - 1) |-> Zero]]
    /\ ixFirst = 0
    /\ ixOverlap = 0
    /\ smatMap = [rc \in (0..0) \X (0..(NumDOF - 1)) |-> Zero]
    /\ se4Pc = "quadrature"
    /\ se4Err = ""
    /\ elemLog = <<>>
    /\ jFace = 0
    /\ kTri = 0
    /\ lPoint = 0
    /\ dAlpha = NaN
    /\ dBeta = NaN
    /\ dSampleAt = <<>>
    /\ dSampleCoeff = <<>>

\* a quadrature point is left to do
AtQuadraturePoint ==
    /\ se4Pc = "quadrature"
    /\ jFace < nOverlapFaces

\* the three nested for loops step to the next quadrature point
NextQuadraturePoint ==
    IF lPoint + 1 < TriQuadraturePoints
    THEN /\ lPoint' = lPoint + 1
         /\ UNCHANGED <<kTri, jFace>>
    ELSE IF kTri + 1 < nOverlapTriangles[jFace]
         THEN /\ lPoint' = 0
              /\ kTri' = kTri + 1
              /\ UNCHANGED jFace
         ELSE /\ lPoint' = 0
              /\ kTri' = 0
              /\ jFace' = jFace + 1

\* dRemapCoeff[p][q][j] +=
\*     TriQuadratureW[l] * dTriangleArea * dSampleCoeff[p][q] / vecFaceArea[ixOverlap + j]
AddSample(coeff, j, l, sample) ==
    [coeff EXCEPT ![j] =
       [n \in 0..(NumNodes - 1) |->
          RAdd(coeff[j][n],
               RDiv(RMul(RMul(TriQuadratureW(l), dTriangleArea(j)), sample[n]),
                    QuadFaceArea(j)))]]

QuadFrame ==
    /\ UNCHANGED <<nInputFaces, inEdges, nOutputFaces, outFaceArea, vecFirstFaceIx,
                   vecSecondFaceIx, ixFirst, ixOverlap, smatMap, elemLog>>
    /\ UNCHANGED nOverlapTriangles
    /\ UNCHANGED fccVars
    /\ UNCHANGED drvVars

\* ApplyInverseMap returns coordinates that pass the check: the basis is
\* sampled there and the sample added to the coefficients
QuadPointPasses ==
    /\ AtQuadraturePoint
    /\ \E alpha \in InverseMapVals, beta \in InverseMapVals, sample \in SampleRows :
         /\ ~InverseMapOutOfRange(alpha, beta)
         /\ dAlpha' = alpha
         /\ dBeta' = beta
         /\ dSampleAt' = <<alpha, beta>>
         /\ dSampleCoeff' = sample
         /\ dRemapCoeff' = AddSample(dRemapCoeff, jFace, lPoint, sample)
    /\ NextQuadraturePoint
    /\ UNCHANGED <<se4Pc, se4Err>>
    /\ QuadFrame

\* ApplyInverseMap returns coordinates that fail the check:
\* _EXCEPTION2("Inverse Map out of range (%1.5e %1.5e)", dAlpha, dBeta)
QuadPointFails ==
    /\ AtQuadraturePoint
    /\ \E alpha \in InverseMapVals, beta \in InverseMapVals :
         /\ InverseMapOutOfRange(alpha, beta)
         /\ dAlpha' = alpha
         /\ dBeta' = beta
    /\ se4Pc' = "error"
    /\ se4Err' = "Inverse Map out of range"
    /\ UNCHANGED <<jFace, kTri, lPoint, dSampleAt, dSampleCoeff, dRemapCoeff>>
    /\ QuadFrame

\* the loop over the overlap faces ends
QuadDone ==
    /\ se4Pc = "quadrature"
    /\ jFace >= nOverlapFaces
    /\ se4Pc' = "quadrature done"
    /\ UNCHANGED <<jFace, kTri, lPoint, dAlpha, dBeta, dSampleAt, dSampleCoeff,
                   dRemapCoeff, se4Err>>
    /\ QuadFrame

QuadNext ==
    \/ QuadPointPasses
    \/ QuadPointFails
    \/ QuadDone

SpecQuad ==
    QuadInit /\ [][QuadNext]_vars

\* the tolerance of the range check as section 4.2 of the specification has
\* it; the check of the code has none
InverseMapTol ==
    Norm(1, 4)

\* x lies outside [0,1] by more than tol
OutsideByMoreThan(tol, x) ==
    \/ RLt(x, RNeg(tol))
    \/ RLt(RAdd(One, tol), x)

\* C12: at every quadrature point, if the coordinates the inverse map
\* returns lie outside [0,1] by more than the tolerance in alpha or beta the
\* out-of-range error is raised before the basis is sampled and nothing is
\* added to the coefficients; otherwise (inside the unit square, or outside
\* it by no more than the tolerance) no error is raised and the basis is
\* sampled at the coordinates as returned, unclamped
C12_InverseMapRange ==
    [][AtQuadraturePoint =>
         IF \/ OutsideByMoreThan(InverseMapTol, dAlpha')
            \/ OutsideByMoreThan(InverseMapTol, dBeta')
         THEN /\ se4Pc' = "error"
              /\ se4Err' = "Inverse Map out of range"
              /\ UNCHANGED <<dSampleAt, dSampleCoeff, dRemapCoeff>>
         ELSE /\ se4Pc' = "quadrature"
              /\ se4Err' = ""
              /\ dSampleAt' = <<dAlpha', dBeta'>>]_vars

(***************************************************************************)
(* The driver main (src/gecore2.cpp:93-457) and ParseVariableList           *)
(* (src/gecore2.cpp:35-64), one action per step of main.  The remap        *)
(* kernels are single steps here: what they received is recorded, and      *)
(* LinearRemapSE4 either returns or raises one of its exceptions.          *)
(***************************************************************************)
MaxVarLen == 2

\* the characters of --var: a letter and the separators
VarChars ==
    {"a", ",", " "}

VarStrings ==
    UNION {[1..n -> VarChars] : n \in 0..MaxVarLen}

MaxMeshFaces == 2

\* the exceptions LinearRemapSE4 raises
KernelExceptions ==
    {"Only quadrilateral elements allowed for SE remapping",
     "Inverse Map out of range",
     "Unable to solve SPD Schur system"}

\* the variables of the callees while main runs
CalleesIdle ==
    /\ FCCIdle
    /\ QuadIdle
    /\ inEdges = <<>>
    /\ outFaceArea = <<>>
    /\ ixFirst = 0
    /\ ixOverlap = 0
    /\ smatMap = <<>>
    /\ dRemapCoeff = <<>>
    /\ elemLog = <<>>

Init ==
    /\ CalleesIdle
    /\ fMonotone \in BOOLEAN
    /\ nInputFaces = 0
    /\ nOutputFaces = 0
    /\ vecFirstFaceIx = <<>>
    /\ vecSecondFaceIx = <<>>
    /\ se4Pc = "idle"
    /\ se4Err = ""
    /\ strInputData \in {"", "in.nc"}
    /\ strOutputData \in {"", "out.nc"}
    /\ strVariables \in VarStrings
    /\ strOutputMap \in {"", "map.nc"}
    /\ strMetaFile \in {"", "meta.nc"}
    /\ fInputSE \in BOOLEAN
    /\ fOutputSE \in BOOLEAN
    /\ fNoCheck \in BOOLEAN
    /\ iVarBegin = 0
    /\ iVarCurrent = 0
    /\ vecVariableStrings = <<>>
    /\ dTotalAreaInput = Zero
    /\ dTotalAreaOverlap = Zero
    /\ srcFaceIx = <<>>
    /\ tgtFaceIx = <<>>
    /\ fInverted = FALSE
    /\ kernelFirst = <<>>
    /\ kernelSecond = <<>>
    /\ drvLog = <<>>
    /\ strException = ""
    /\ exitStatus = -1
    /\ drvPc = "args"

\* what no step of main changes: the variables of the corrector and the
\* loop variables of the kernel
DrvFrame ==
    UNCHANGED <<vecSourceArea, vecTargetArea, dCoeff, fMonotone, dCoeffIn, nInfo,
                fccPc, inEdges, outFaceArea, ixFirst, ixOverlap, smatMap,
                dRemapCoeff, elemLog>>
    /\ UNCHANGED quadVars

\* the command line, which main only reads
DrvArgs ==
    UNCHANGED <<strInputData, strOutputData, strVariables, strOutputMap,
                strMetaFile, fInputSE, fOutputSE>>

DrvMeshes ==
    UNCHANGED <<nInputFaces, nOutputFaces, dTotalAreaInput, srcFaceIx, tgtFaceIx,
                fInverted>>

\* an exception leaves the try block
Throw(e) ==
    /\ strException' = e
    /\ drvPc' = "caught"

\* Check command line parameters
ArgsInvalid ==
    \/ strInputData # "" /\ strOutputData = ""
    \/ strInputData = "" /\ strOutputData # ""

DrvArgsInvalid ==
    /\ drvPc = "args"
    /\ ArgsInvalid
    /\ Throw(IF strInputData # ""
             THEN "in_data specified without out_data"
             ELSE "out_data specified without in_data")
    /\ UNCHANGED <<fNoCheck, iVarBegin, iVarCurrent, vecVariableStrings,
                   dTotalAreaOverlap, kernelFirst, kernelSecond, drvLog, exitStatus,
                   vecFirstFaceIx, vecSecondFaceIx, se4Pc, se4Err>>
    /\ DrvArgs /\ DrvMeshes /\ DrvFrame

DrvArgsValid ==
    /\ drvPc = "args"
    /\ ~ArgsInvalid
    /\ drvPc' = "parse"
    /\ UNCHANGED <<fNoCheck, iVarBegin, iVarCurrent, vecVariableStrings,
                   dTotalAreaOverlap, kernelFirst, kernelSecond, drvLog, exitStatus,
                   strException, vecFirstFaceIx, vecSecondFaceIx, se4Pc, se4Err>>
    /\ DrvArgs /\ DrvMeshes /\ DrvFrame

\* ParseVariableList: the character at iVarCurrent ends a name
AtSeparator ==
    IF iVarCurrent >= Len(strVariables)
    THEN TRUE
    ELSE strVariables[iVarCurrent + 1] \in {",", " "}

\* what a step of ParseVariableList leaves alone
ParseFrame ==
    /\ UNCHANGED <<fNoCheck, dTotalAreaOverlap, kernelFirst, kernelSecond, drvLog,
                   exitStatus, strException, vecFirstFaceIx, vecSecondFaceIx, se4Pc,
                   se4Err>>
    /\ DrvArgs /\ DrvMeshes /\ DrvFrame

\* an empty name at the end of the string: break
ParseBreak ==
    /\ drvPc = "parse"
    /\ AtSeparator
    /\ iVarCurrent = iVarBegin
    /\ iVarCurrent >= Len(strVariables)
    /\ drvPc' = "vars"
    /\ UNCHANGED <<iVarBegin, iVarCurrent, vecVariableStrings>>
    /\ ParseFrame

\* an empty name before the end of the string: continue, iVarCurrent is not
\* advanced
ParseContinue ==
    /\ drvPc = "parse"
    /\ AtSeparator
    /\ iVarCurrent = iVarBegin
    /\ iVarCurrent < Len(strVariables)
    /\ UNCHANGED <<iVarBegin, iVarCurrent, vecVariableStrings, drvPc>>
    /\ ParseFrame

\* vecVariableStrings.push_back(strVariables.substr(iVarBegin,
\* iVarCurrent - iVarBegin)), and the next character
ParsePush ==
    /\ drvPc = "parse"
    /\ AtSeparator
    /\ iVarCurrent # iVarBegin
    /\ vecVariableStrings' =
          Append(vecVariableStrings, SubSeq(strVariables, iVarBegin + 1, iVarCurrent))
    /\ iVarBegin' = iVarCurrent + 1
    /\ iVarCurrent' = iVarCurrent + 1
    /\ UNCHANGED drvPc
    /\ ParseFrame

\* a character of a name: iVarCurrent++
ParseAdvance ==
    /\ drvPc = "parse"
    /\ ~AtSeparator
    /\ iVarCurrent' = iVarCurrent + 1
    /\ UNCHANGED <<iVarBegin, vecVariableStrings, drvPc>>
    /\ ParseFrame

\* _EXCEPTIONT("No variables specified")
DrvNoVariables ==
    /\ drvPc = "vars"
    /\ strInputData # ""
    /\ Len(vecVariableStrings) = 0
    /\ Throw("No variables specified")
    /\ UNCHANGED <<iVarBegin, iVarCurrent, vecVariableStrings, fNoCheck,
                   dTotalAreaOverlap, kernelFirst, kernelSecond, drvLog, exitStatus,
                   vecFirstFaceIx, vecSecondFaceIx, se4Pc, se4Err>>
    /\ DrvArgs /\ DrvMeshes /\ DrvFrame

\* Load the input, output and overlap meshes.  Each overlap face lies in one
\* input face and one output face; the file lists them in this order, or the
\* output face first
DrvLoadMeshes ==
    /\ drvPc = "vars"
    /\ ~(strInputData # "" /\ Len(vecVariableStrings) = 0)
    /\ \E nIn \in 1..MaxMeshFaces, nOut \in 1..MaxMeshFaces,
          nOverlap \in 0..MaxOverlapFaces :
         /\ nInputFaces' = nIn
         /\ nOutputFaces' = nOut
         /\ dTotalAreaInput' = R(nIn)
         /\ srcFaceIx' \in [0..(nOverlap - 1) -> 0..(nIn - 1)]
         /\ tgtFaceIx' \in [0..(nOverlap - 1) -> 0..(nOut - 1)]
    /\ fInverted' \in BOOLEAN
    /\ vecFirstFaceIx' = IF fInverted' THEN tgtFaceIx' ELSE srcFaceIx'
    /\ vecSecondFaceIx' = IF fInverted' THEN srcFaceIx' ELSE tgtFaceIx'
    /\ drvPc' = "overlap"
    /\ UNCHANGED <<iVarBegin, iVarCurrent, vecVariableStrings, fNoCheck,
                   dTotalAreaOverlap, kernelFirst, kernelSecond, drvLog, exitStatus,
                   strException, se4Pc, se4Err>>
    /\ DrvArgs /\ DrvFrame

\* ixFirstFaceMax over the first n overlap faces: the largest
\* vecFirstFaceIx[i] + 1, -1 when there is none
RECURSIVE FirstFaceMax(_, _)
FirstFaceMax(first, n) ==
    IF n = 0 THEN -1
    ELSE LET ixFirstFaceMax == FirstFaceMax(first, n - 1)
         IN  IF first[n - 1] + 1 > ixFirstFaceMax
             THEN first[n - 1] + 1
             ELSE ixFirstFaceMax

\* OverlapCorrespondence taking a match with the output mesh as primary too
OverlapCorrespondenceNoReverse(ixFirstFaceMax, nIn, nOut) ==
    IF ixFirstFaceMax = nIn \/ ixFirstFaceMax = nOut THEN "primary" ELSE "invalid"

\* OverlapCorrespondence accepting any index within the input mesh
OverlapCorrespondenceWithin(ixFirstFaceMax, nIn, nOut) ==
    IF ixFirstFaceMax <= nIn THEN "primary"
    ELSE IF ixFirstFaceMax = nOut THEN "reverse"
    ELSE "invalid"

\* Verify that overlap mesh is in the correct order
OverlapCorrespondence(ixFirstFaceMax, nIn, nOut) ==
    IF ixFirstFaceMax = nIn THEN "primary"
    ELSE IF ixFirstFaceMax = nOut THEN "reverse"
    ELSE "invalid"

\* meshOverlap.ExchangeFirstAndSecondMesh(): the two provenance arrays swap
ExchangeFirstAndSecondMesh(first, second) ==
    [vecFirstFaceIx |-> second, vecSecondFaceIx |-> first]

Correspondence ==
    OverlapCorrespondence(FirstFaceMax(vecFirstFaceIx, Cardinality(DOMAIN vecFirstFaceIx)),
                          nInputFaces, nOutputFaces)

OverlapFrame ==
    /\ UNCHANGED <<iVarBegin, iVarCurrent, vecVariableStrings, fNoCheck,
                   dTotalAreaOverlap, kernelFirst, kernelSecond, drvLog, exitStatus,
                   se4Pc, se4Err>>
    /\ DrvArgs /\ DrvMeshes /\ DrvFrame

\* "Overlap mesh primary correspondence found"
DrvOverlapPrimary ==
    /\ drvPc = "overlap"
    /\ Correspondence = "primary"
    /\ drvPc' = "area"
    /\ UNCHANGED <<vecFirstFaceIx, vecSecondFaceIx, strException>>
    /\ OverlapFrame

\* "Overlap mesh reverse correspondence found (reversing)"
DrvOverlapReverse ==
    /\ drvPc = "overlap"
    /\ Correspondence = "reverse"
    /\ LET m == ExchangeFirstAndSecondMesh(vecFirstFaceIx, vecSecondFaceIx)
       IN  /\ vecFirstFaceIx' = m.vecFirstFaceIx
           /\ vecSecondFaceIx' = m.vecSecondFaceIx
    /\ drvPc' = "area"
    /\ UNCHANGED strException
    /\ OverlapFrame

\* _EXCEPTION1("Invalid overlap mesh: No correspondence found ...")
DrvOverlapInvalid ==
    /\ drvPc = "overlap"
    /\ Correspondence = "invalid"
    /\ Throw("Invalid overlap mesh")
    /\ UNCHANGED <<vecFirstFaceIx, vecSecondFaceIx>>
    /\ OverlapFrame

\* the total area of the overlap mesh, in the units of CoverageTol
TotalAreaVals ==
    {R(a) : a \in 0..MaxMeshFaces}

\* IsPartialCover with twice the tolerance
IsPartialCoverLoose(dOverlap, dInput) ==
    RLt(R(2 * CoverageTol), RAbs(RSub(dOverlap, dInput)))

\* Partial cover: fabs(dTotalAreaOverlap - dTotalAreaInput) > 1.0e-10
IsPartialCover(dOverlap, dInput) ==
    RLt(R(CoverageTol), RAbs(RSub(dOverlap, dInput)))

\* Calculate the overlap mesh Face areas; a mismatch with the input mesh
\* area enables --nocheck
DrvOverlapArea ==
    /\ drvPc = "area"
    /\ dTotalAreaOverlap' \in TotalAreaVals
    /\ fNoCheck' = IF IsPartialCover(dTotalAreaOverlap', dTotalAreaInput) /\ ~fNoCheck
                   THEN TRUE
                   ELSE fNoCheck
    /\ drvPc' = "dispatch"
    /\ UNCHANGED <<iVarBegin, iVarCurrent, vecVariableStrings, kernelFirst,
                   kernelSecond, drvLog, exitStatus, strException, vecFirstFaceIx,
                   vecSecondFaceIx, se4Pc, se4Err>>
    /\ DrvArgs /\ DrvMeshes /\ DrvFrame

\* what the steps after the overlap check leave alone
RunFrame ==
    /\ UNCHANGED <<iVarBegin, iVarCurrent, vecVariableStrings, fNoCheck,
                   dTotalAreaOverlap, vecFirstFaceIx, vecSecondFaceIx, exitStatus>>
    /\ DrvArgs /\ DrvMeshes /\ DrvFrame

\* a remap kernel is called with meshOverlap as it is now
CallKernel(name) ==
    /\ drvLog' = Append(drvLog, name)
    /\ kernelFirst' = vecFirstFaceIx
    /\ kernelSecond' = vecSecondFaceIx

\* Finite volume input / Finite volume output
DrvFVtoFV ==
    /\ drvPc = "dispatch"
    /\ ~fInputSE /\ ~fOutputSE
    /\ CallKernel("LinearRemapFVtoFV")
    /\ drvPc' = "verify"
    /\ UNCHANGED <<strException, se4Pc, se4Err>>
    /\ RunFrame

\* Finite volume input / Spectral element output
DrvFVtoGLL ==
    /\ drvPc = "dispatch"
    /\ ~fInputSE /\ fOutputSE
    /\ CallKernel("LinearRemapFVtoGLL")
    /\ drvPc' = "verify"
    /\ UNCHANGED <<strException, se4Pc, se4Err>>
    /\ RunFrame

\* dataGLLNodes.GetSubColumns(): the number of elements of the meta data; a
\* meta data file may hold those of another mesh, generated meta data do not
SubColumns ==
    IF strMetaFile # "" THEN {nInputFaces, nInputFaces + 1} ELSE {nInputFaces}

\* Spectral element input / Finite volume output:
\* _EXCEPTIONT("Number of element does not match between metadata and input mesh")
DrvMetaMismatch ==
    /\ drvPc = "dispatch"
    /\ fInputSE /\ ~fOutputSE
    /\ \E nSubColumns \in SubColumns : nSubColumns # nInputFaces
    /\ Throw("Number of element does not match between metadata and input mesh")
    /\ UNCHANGED <<kernelFirst, kernelSecond, drvLog, se4Pc, se4Err>>
    /\ RunFrame

\* Spectral element input / Finite volume output: LinearRemapSE4 returns
DrvSE4Returns ==
    /\ drvPc = "dispatch"
    /\ fInputSE /\ ~fOutputSE
    /\ \E nSubColumns \in SubColumns : nSubColumns = nInputFaces
    /\ CallKernel("LinearRemapSE4")
    /\ se4Pc' = "done"
    /\ drvPc' = "verify"
    /\ UNCHANGED <<strException, se4Err>>
    /\ RunFrame

\* Spectral element input / Finite volume output: LinearRemapSE4 raises
DrvSE4Throws ==
    /\ drvPc = "dispatch"
    /\ fInputSE /\ ~fOutputSE
    /\ \E nSubColumns \in SubColumns : nSubColumns = nInputFaces
    /\ CallKernel("LinearRemapSE4")
    /\ se4Pc' = "error"
    /\ se4Err' \in KernelExceptions
    /\ Throw(se4Err')
    /\ RunFrame

\* _EXCEPTIONT("Not implemented")
DrvNotImplemented ==
    /\ drvPc = "dispatch"
    /\ fInputSE /\ fOutputSE
    /\ Throw("Not implemented")
    /\ UNCHANGED <<kernelFirst, kernelSecond, drvLog, se4Pc, se4Err>>
    /\ RunFrame

\* the checks of "Verifying map"
MapChecks ==
    IF fNoCheck THEN <<>>
    ELSE IF fMonotone THEN <<"IsConsistent", "IsConservative", "IsMonotone">>
    ELSE <<"IsConsistent", "IsConservative">>

\* Verify consistency, conservation and monotonicity
DrvVerify ==
    /\ drvPc = "verify"
    /\ drvLog' = drvLog \o MapChecks
    /\ drvPc' = "write"
    /\ UNCHANGED <<kernelFirst, kernelSecond, strException, se4Pc, se4Err>>
    /\ RunFrame

\* Output the Offline Map
DrvWrite ==
    /\ drvPc = "write"
    /\ drvLog' = IF strOutputMap # "" THEN Append(drvLog, "Write") ELSE drvLog
    /\ drvPc' = "apply"
    /\ UNCHANGED <<kernelFirst, kernelSecond, strException, se4Pc, se4Err>>
    /\ RunFrame

\* Apply Offline Map to data
DrvApply ==
    /\ drvPc = "apply"
    /\ drvLog' = IF strInputData # "" THEN Append(drvLog, "Apply") ELSE drvLog
    /\ drvPc' = "end"
    /\ UNCHANGED <<kernelFirst, kernelSecond, strException, se4Pc, se4Err>>
    /\ RunFrame

\* the value main returns when control reaches its closing brace without a
\* return statement
FallOffMain == 0

ExitFrame ==
    /\ UNCHANGED <<iVarBegin, iVarCurrent, vecVariableStrings, fNoCheck,
                   dTotalAreaOverlap, vecFirstFaceIx, vecSecondFaceIx, kernelFirst,
                   kernelSecond, drvLog, strException, se4Pc, se4Err>>
    /\ DrvArgs /\ DrvMeshes /\ DrvFrame

\* the try block ends; main has no return statement
DrvReturn ==
    /\ drvPc = "end"
    /\ exitStatus' = FallOffMain
    /\ drvPc' = "exit"
    /\ ExitFrame

\* catch(Exception & e) { Announce(e.ToString().c_str()); }, and the end of
\* main is reached as after the try block
DrvCatch ==
    /\ drvPc = "caught"
    /\ exitStatus' = FallOffMain
    /\ drvPc' = "exit"
    /\ ExitFrame

Next ==
    \/ DrvArgsInvalid
    \/ DrvArgsValid
    \/ ParseBreak
    \/ ParseContinue
    \/ ParsePush
    \/ ParseAdvance
    \/ DrvNoVariables
    \/ DrvLoadMeshes
    \/ DrvOverlapPrimary
    \/ DrvOverlapReverse
    \/ DrvOverlapInvalid
    \/ DrvOverlapArea
    \/ DrvFVtoFV
    \/ DrvFVtoGLL
    \/ DrvMetaMismatch
    \/ DrvSE4Returns
    \/ DrvSE4Throws
    \/ DrvNotImplemented
    \/ DrvVerify
    \/ DrvWrite
    \/ DrvApply
    \/ DrvReturn
    \/ DrvCatch

Spec ==
    Init /\ [][Next]_vars

(***************************************************************************)
(* Properties of the driver.                                               *)
(***************************************************************************)
RemapKernels ==
    {"LinearRemapFVtoFV", "LinearRemapFVtoGLL", "LinearRemapSE4"}

\* a remap kernel has been called
KernelCalled ==
    \E i \in DOMAIN drvLog : drvLog[i] \in RemapKernels

\* vecFirstFaceIx as the overlap mesh file gives it
FileFirstFaceIx ==
    IF fInverted THEN tgtFaceIx ELSE srcFaceIx

\* ixFirstFaceMax of the overlap mesh file
FileFirstFaceMax ==
    FirstFaceMax(FileFirstFaceIx, Cardinality(DOMAIN FileFirstFaceIx))

\* C8 as claimed: whenever the overlap mesh lists the output face first, the
\* remap kernel receives vecFirstFaceIx indexing the input mesh and
\* vecSecondFaceIx indexing the output mesh, for every pair of face counts
C8_SelfHeals ==
    (fInverted /\ KernelCalled) =>
        /\ kernelFirst = srcFaceIx
        /\ kernelSecond = tgtFaceIx

\* C8 as the code has it: when the overlap mesh lists the output face first,
\* the arrays are exchanged before the kernel runs if the largest
\* vecFirstFaceIx plus one equals the number of output faces and not the
\* number of input faces; if it equals the number of input faces (so with
\* equal face counts) they reach the kernel as the file gives them
C8_SelfHealsOnDistinctMax ==
    (fInverted /\ KernelCalled) =>
        /\ (FileFirstFaceMax = nOutputFaces /\ FileFirstFaceMax # nInputFaces) =>
              (kernelFirst = srcFaceIx /\ kernelSecond = tgtFaceIx)
        /\ FileFirstFaceMax = nInputFaces =>
              (kernelFirst = tgtFaceIx /\ kernelSecond = srcFaceIx)

\* a run on an inverted overlap mesh between meshes of different face counts
\* that exchanged the arrays, ran LinearRemapSE4 and wrote the map
C8_Witness ==
    /\ drvPc = "exit"
    /\ fInverted
    /\ nInputFaces # nOutputFaces
    /\ srcFaceIx # tgtFaceIx
    /\ drvLog = <<"LinearRemapSE4", "Write">>
    /\ kernelFirst = srcFaceIx
    /\ kernelSecond = tgtFaceIx

\* the meshes are loaded and the overlap check has been made
OverlapChecked ==
    /\ nInputFaces > 0
    /\ drvPc # "overlap"

\* C9: if the largest vecFirstFaceIx of the overlap mesh plus one equals
\* neither the number of input faces nor the number of output faces (an
\* overlap mesh without faces included), the driver raises the 'Invalid
\* overlap mesh' exception, and no remap kernel, verification, map output or
\* data remap is run
C9_InvalidOverlap ==
    (/\ OverlapChecked
     /\ FileFirstFaceMax # nInputFaces
     /\ FileFirstFaceMax # nOutputFaces) =>
        /\ strException = "Invalid overlap mesh"
        /\ drvLog = <<>>
        /\ kernelFirst = <<>>
        /\ kernelSecond = <<>>
        /\ se4Pc = "idle"

\* a run ended after an overlap mesh with two faces matched neither mesh
C9_Witness ==
    /\ drvPc = "exit"
    /\ Cardinality(DOMAIN FileFirstFaceIx) = 2
    /\ FileFirstFaceMax # nInputFaces
    /\ FileFirstFaceMax # nOutputFaces
    /\ strException = "Invalid overlap mesh"
    /\ strOutputMap # ""
    /\ strInputData # ""

\* C10: the process exits with status 0 when the run completes without an
\* exception, and with a non-zero status whenever an exception was raised
\* and logged
C10_ExitCodes ==
    drvPc = "exit" =>
        /\ strException = "" => exitStatus = 0
        /\ strException # "" => exitStatus # 0

\* the post-run checks of the map
IsMapCheck(name) ==
    name \in {"IsConsistent", "IsConservative", "IsMonotone"}

\* the checks made so far, in order
ChecksRun ==
    SelectSeq(drvLog, IsMapCheck)

\* the total areas have been computed and differ by more than 1e-10
AreasDiffer ==
    /\ drvPc \in {"dispatch", "verify", "write", "apply", "end"}
    /\ RLt(R(CoverageTol), RAbs(RSub(dTotalAreaOverlap, dTotalAreaInput)))

\* main is past "Verifying map" without an exception
PastVerify ==
    /\ drvPc \in {"write", "apply", "end", "exit"}
    /\ strException = ""

\* C14: the post-run checks run only after the remap kernel has returned and
\* before the map is written; nocheck changes only where the total areas
\* are compared, from not given to set, and is set whenever they differ by
\* more than 1e-10; past the verification IsConsistent and IsConservative
\* have run exactly when nocheck is still off (it was not given and the
\* areas agree), IsMonotone after them exactly when mono is set as well, and
\* no check has run in any other case
C14_VerificationGating ==
    /\ [][fNoCheck' # fNoCheck =>
             /\ drvPc = "area"
             /\ ~fNoCheck
             /\ RLt(R(CoverageTol), RAbs(RSub(dTotalAreaOverlap', dTotalAreaInput)))]_vars
    /\ [][dTotalAreaOverlap' # dTotalAreaOverlap => drvPc = "area"]_vars
    /\ [](AreasDiffer => fNoCheck)
    /\ [](PastVerify =>
            /\ ChecksRun = IF fNoCheck THEN <<>>
                           ELSE IF fMonotone
                                THEN <<"IsConsistent", "IsConservative", "IsMonotone">>
                                ELSE <<"IsConsistent", "IsConservative">>
            /\ drvLog[1] \in RemapKernels
            /\ \A i \in DOMAIN drvLog :
                  /\ IsMapCheck(drvLog[i]) => 1 < i /\ i <= 1 + Len(ChecksRun)
                  /\ drvLog[i] \in {"Write", "Apply"} => i > 1 + Len(ChecksRun))
    /\ [](~PastVerify => ChecksRun = <<>>)

\* the kernel returned in monotone mode with nocheck off and matching total
\* areas, the three checks ran, and the map was written after them
C14_Witness ==
    /\ drvPc = "exit"
    /\ ~fNoCheck
    /\ fMonotone
    /\ ~AreasDiffer
    /\ drvLog = <<"LinearRemapSE4", "IsConsistent", "IsConservative", "IsMonotone",
                  "Write">>

(***************************************************************************)
(* main up to the return of ParseVariableList, with the loop of the parser  *)
(* always taking its next iteration.                                       *)
(***************************************************************************)
ParseNext ==
    \/ DrvArgsInvalid
    \/ DrvArgsValid
    \/ ParseBreak
    \/ ParseContinue
    \/ ParsePush
    \/ ParseAdvance

SpecParse ==
    Init /\ [][ParseNext]_vars /\ WF_vars(ParseNext)

\* the non-empty separator-free substrings of str from position i on, in
\* left-to-right order; cur is the substring that ends before i
RECURSIVE SplitNames(_, _, _)
SplitNames(str, i, cur) ==
    IF i > Len(str)
    THEN IF cur = <<>> THEN <<>> ELSE <<cur>>
    ELSE IF str[i] \in {",", " "}
         THEN (IF cur = <<>> THEN <<>> ELSE <<cur>>) \o SplitNames(str, i + 1, <<>>)
         ELSE SplitNames(str, i + 1, Append(cur, str[i]))

\* the iteration the loop is about to run neither leaves the loop nor
\* changes iVarBegin, iVarCurrent or vecVariableStrings: the loop reads
\* nothing else, so the same iteration follows it for ever
ParseSpins ==
    /\ drvPc = "parse"
    /\ AtSeparator
    /\ iVarCurrent = iVarBegin
    /\ iVarCurrent < Len(strVariables)

\* C19: ParseVariableList terminates for every string over letters, ',' and
\* ' ', the empty string and strings with a leading, a trailing or a doubled
\* separator included (no iteration of its loop repeats itself, and the loop
\* is left), and when it has returned vecVariableStrings holds the
\* non-empty separator-free substrings in left-to-right order
C19_ParseTerminates ==
    /\ [](~ParseSpins)
    /\ (drvPc = "parse") ~> (drvPc # "parse")
    /\ [](drvPc = "vars" => vecVariableStrings = SplitNames(strVariables, 1, <<>>))

====
